---- MODULE Spec2Model ----
(***************************************************************************)
(* Model of the CloudWatch log viewer: the CloudWatchLogViewer component   *)
(* (group / stream selection, search, clearFilters) and the requests it    *)
(* keeps in flight against /api/cloudwatch.                                *)
(***************************************************************************)
EXTENDS Integers, Sequences, FiniteSets, TLC

(***************************************************************************)
(* Bounds and backend data                                                 *)
(***************************************************************************)

\* Total number of requests the component may issue in one run.
MaxRequests == 4

\* The same, for the runs in which nothing is typed in the text inputs.
MaxOverlapRequests == 5

\* The same, for the runs that follow the timers of the dropdown queries.
MaxQueryRequests == 2

\* The same, for the runs with searches and typing in the dropdown queries.
MaxTypedRequests == 3

\* The debounce delay (300 ms), in ticks of the clock.
DelayTicks == 2

\* The backend's catalog: the group names GET returns, in order.
BackendGroups == <<"ga", "gb">>

\* The streams PUT returns for a group.
BackendStreams(g) ==
    CASE g = "ga" -> <<"a1", "a2">>
      [] g = "gb" -> <<"b1">>
      [] OTHER    -> <<>>

\* Values the operator may type in the text inputs.
FilterPatterns == {"", "ERROR"}
TimeInputs     == {"", "1970-01-01T00:01"}
EpochInputs    == {"", "1970-01-01T00:00", "1970-01-01T00:01"}
QueryInputs    == {"", "g", "ga"}
ShortQueries   == {"", "g"}

Range(s) == {s[i] : i \in 1..Len(s)}

\* The two searchable dropdowns, each with its debounced query.
Fields == {"group", "stream"}

GroupNames  == Range(BackendGroups)
StreamNames == UNION {Range(BackendStreams(g)) : g \in GroupNames}

VARIABLES
    logGroups,          \* useState<LogGroup[]>([])
    logStreams,         \* useState<LogStream[]>([])
    selectedLogGroup,   \* useState("")
    selectedLogStream,  \* useState("")
    filterPattern,      \* useState("")
    startTime,          \* useState("")
    endTime,            \* useState("")
    logEvents,          \* useState<LogEvent[]>([])
    loading,            \* useState(false)
    error,              \* useState("")
    logGroupQuery,      \* useState("")
    logStreamQuery,     \* useState("")
    inflight,           \* fetch() calls whose promise has not settled
    issued,             \* number of fetch() calls made so far
    lastOp              \* which handler or continuation ran last:
                        \*   "mount", "selectLogGroup", "selectLogStream", "input",
                        \*   "setLogGroupQuery", "setLogStreamQuery", "settle",
                        \*   "submit", "clearFilters", "unmount" (handlers, with
                        \*   the effects they trigger), "fetchLogGroups",
                        \*   "fetchLogStreams", "searchLogs" (the continuation
                        \*   after the awaits), "fetchLogGroupsCatch",
                        \*   "fetchLogStreamsCatch", "searchLogsCatch" (the
                        \*   catch block after a failure), "dropdown"

\* useDebounce, one instance per dropdown query ("group", "stream")
VARIABLES
    debounced,          \* debouncedValue of each instance
    timers,             \* pending setTimeout handlers of each instance
    mounted,            \* the component is mounted
    sinceInput,         \* ticks since the instance's value last changed
    emits               \* setDebouncedValue calls since that change

\* route.ts: one invocation of a handler
VARIABLES
    method,             \* the handler invoked: "GET", "PUT" or "POST"
    pages,              \* what the log store holds, as the pages it answers with
    failAt,             \* the page whose call fails (0: none)
    failWith,           \* the error that call throws: its name and __type
    body,               \* the JSON body of the request to the handler
    jsonOk,             \* whether req.json() resolves with an object
    params,             \* POST: the input of the FilterLogEventsCommand
    envOk,              \* region and credentials are set
    pc,                 \* where the handler is
    routeLogGroups,     \* GET: let logGroups
    nextToken,          \* GET: let nextToken
    sent,               \* the tokens of the commands sent so far
    response            \* what the handler returned

\* The filter of a dropdown, applied to a list of names
VARIABLES
    fItems,             \* the collection
    fQuery,             \* the settled query
    fView               \* the filtered view

\* The two dropdowns ("group", "stream")
VARIABLES
    open,               \* logGroupOpen / logStreamOpen
    activeIndex,        \* logGroupActiveIndex / logStreamActiveIndex
    attached,           \* parentRefLogGroup / parentRefLogStream is set
    scrollCall          \* the call of scrollToIndex made in the last step

\* AdvancedSearch
VARIABLES
    criteria,           \* useState<SearchCriteria[]>
    logLevel,           \* useState("")
    combineOperator,    \* useState<"AND" | "OR">("AND")
    now,                \* what Date.now() returns
    searchOp,           \* the handler of AdvancedSearch that ran last
    searched            \* the filter pattern last handed to onSearch

clientVars == <<logGroups, logStreams, selectedLogGroup, selectedLogStream,
                filterPattern, startTime, endTime, logEvents, loading, error,
                logGroupQuery, logStreamQuery, inflight, issued, lastOp>>

debounceVars == <<debounced, timers, mounted, sinceInput, emits>>

routeVars == <<method, pages, failAt, failWith, body, jsonOk, params, envOk, pc, routeLogGroups, nextToken,
               sent, response>>

filterVars == <<fItems, fQuery, fView>>

dropVars == <<open, activeIndex, attached, scrollCall>>

searchVars == <<criteria, logLevel, combineOperator, now, searchOp, searched>>

vars == <<clientVars, debounceVars, routeVars, filterVars, dropVars, searchVars>>

(***************************************************************************)
(* The backend as the component sees it                                    *)
(***************************************************************************)

\* new Date(s).getTime() for the datetime-local strings of TimeInputs
\* (read in UTC).
ToMillis(s) ==
    CASE s = "1970-01-01T00:01" -> 60000
      [] s = "1970-01-01T00:00" -> 0

\* The events a successful search answers with, in the order of the
\* response: three for a search of the whole group, one for a search of one
\* stream.  Each carries the number of the request it answers and the stream
\* it was read from.
EventsOf(r) ==
    [seq \in 1..(IF r.logStreamName = {} THEN 3 ELSE 1) |->
        [eventId |-> r.id,
         seq |-> seq,
         logGroupName |-> r.logGroupName,
         logStreamName |-> IF r.logStreamName = {}
                           THEN BackendStreams(r.logGroupName)[1]
                           ELSE CHOOSE st \in r.logStreamName : TRUE]]

\* The { error } bodies the route answers with, per endpoint: the friendly
\* credential message (401) or the endpoint's own message (500).
ErrorsOf(kind) ==
    {"AWS credentials are invalid. Please check your configuration.",
     CASE kind = "groups"  -> "Failed to fetch log groups"
       [] kind = "streams" -> "Failed to fetch log streams"
       [] kind = "search"  -> "Failed to search logs"}

NoBody == [logGroupName |-> "", logStreamName |-> {}, filterPattern |-> {},
           startTime |-> {}, endTime |-> {}, limit |-> {}]

\* fetch(): a new request in flight.  Of the body, the record in flight keeps
\* the fields the answer depends on (group and stream).
Send(kind, b) ==
    /\ issued' = issued + 1
    /\ inflight' = inflight \cup {[id |-> issued + 1, kind |-> kind,
                                   logGroupName |-> b.logGroupName,
                                   logStreamName |-> b.logStreamName]}

(***************************************************************************)
(* filteredLogGroups / filteredLogStreams                                  *)
(***************************************************************************)
\* The characters of the names and queries the model uses.
Chars(str) ==
    CASE str = ""         -> <<>>
      [] str = "g"        -> <<"g">>
      [] str = "ga"       -> <<"g", "a">>
      [] str = "gb"       -> <<"g", "b">>
      [] str = "a1"       -> <<"a", "1">>
      [] str = "a2"       -> <<"a", "2">>
      [] str = "b1"       -> <<"b", "1">>
      [] str = "Alpha"    -> <<"A", "l", "p", "h", "a">>
      [] str = "beta"     -> <<"b", "e", "t", "a">>
      [] str = "ALPHABET" -> <<"A", "L", "P", "H", "A", "B", "E", "T">>
      [] str = "alpha"    -> <<"a", "l", "p", "h", "a">>
      [] str = "BET"      -> <<"B", "E", "T">>
      [] str = "ta"       -> <<"t", "a">>

\* String.prototype.toLowerCase, one character.
LowerChar(c) ==
    CASE c = "A" -> "a"
      [] c = "B" -> "b"
      [] c = "E" -> "e"
      [] c = "H" -> "h"
      [] c = "L" -> "l"
      [] c = "P" -> "p"
      [] c = "T" -> "t"
      [] OTHER   -> c

toLowerCase(cs) == [i \in 1..Len(cs) |-> LowerChar(cs[i])]

\* String.prototype.includes: q occurs in cs at some position.
includes(cs, q) ==
    \E i \in 0..(Len(cs) - Len(q)) : SubSeq(cs, i + 1, i + Len(q)) = q

\* Mutant: the names are compared as they are written.
Matches_CaseSensitive(name, query) == includes(Chars(name), Chars(query))

\* The predicate of the filter.
Matches(name, query) ==
    includes(toLowerCase(Chars(name)), toLowerCase(Chars(query)))

\* query === "" ? items : items.filter(...)
Filtered(items, query) ==
    IF query = "" THEN items
    ELSE SelectSeq(items, LAMBDA name : Matches(name, query))

filteredLogGroups  == Filtered(logGroups, debounced["group"])
filteredLogStreams == Filtered(logStreams, debounced["stream"])

\* The collections and settled queries the filter is applied to.
FilterNames   == {"Alpha", "beta", "ALPHABET"}
FilterQueries == {"", "alpha", "BET", "ta"}
MaxItems == 3

\* The settled query of a dropdown becomes q: the next render filters again.
FilterSettles(q) ==
    /\ q \in FilterQueries /\ q # fQuery
    /\ fQuery' = q
    /\ fView' = Filtered(fItems, q)
    /\ UNCHANGED <<fItems, clientVars, debounceVars, routeVars, dropVars, searchVars>>

(***************************************************************************)
(* The two dropdowns: open flag, active index, scroll-to-active effects   *)
(***************************************************************************)
FilteredOf(f) == IF f = "group" THEN filteredLogGroups ELSE filteredLogStreams

\* What the filtered list of a dropdown is computed from: it has the same
\* length after a step that changes neither.
FilterInputs(f) ==
    IF f = "group" THEN <<logGroups, debounced["group"]>>
    ELSE <<logStreams, debounced["stream"]>>

\* What the scroll effect of a dropdown did in a step: whether it ran, and
\* the call of scrollToIndex it made, if any.  Here: it did not run.
NoCall == [ran |-> FALSE, called |-> FALSE, index |-> 0, count |-> 0]

\* Mutant: the effect scrolls whatever the length of the filtered list.
ShouldScroll_AnyLength(isOpen, hasRef, length) == isOpen /\ hasRef

\* The condition of the scroll effect.
ShouldScroll(isOpen, hasRef, length) == isOpen /\ hasRef /\ length > 0

\* The scroll effects after the render that follows a step: the effect of a
\* dropdown runs when its open flag, its active index or the length of its
\* filtered list has changed, and calls scrollToIndex(activeIndex) if the
\* dropdown is open, the list element is rendered and the list is not empty.
ScrollEffects ==
    scrollCall' =
        [f \in Fields |->
            LET ran == /\ mounted'
                       /\ \/ open'[f] # open[f]
                          \/ activeIndex'[f] # activeIndex[f]
                          \/ /\ FilterInputs(f)' # FilterInputs(f)
                             /\ Len(FilteredOf(f)') # Len(FilteredOf(f))
            IN  IF ran /\ ShouldScroll(open'[f], attached'[f], Len(FilteredOf(f)'))
                THEN [ran |-> TRUE, called |-> TRUE, index |-> activeIndex'[f],
                      count |-> Len(FilteredOf(f)')]
                ELSE [NoCall EXCEPT !.ran = ran]]

\* A step of the component that is not an event of a dropdown.
KeepsDropdowns ==
    /\ UNCHANGED <<open, activeIndex, attached>>
    /\ ScrollEffects

\* The largest index of a row in either dropdown.
MaxActiveIndex == 1

\* The input of the stream dropdown is disabled while no group is selected.
Usable(f) == mounted /\ (f = "stream" => selectedLogGroup # "")

\* An event of dropdown f: it leaves the rest of the component as it is.
DropdownEvent ==
    /\ lastOp' = "dropdown"
    /\ UNCHANGED <<logGroups, logStreams, selectedLogGroup, selectedLogStream,
                   filterPattern, startTime, endTime, logEvents, loading, error,
                   logGroupQuery, logStreamQuery, inflight, issued>>
    /\ UNCHANGED <<debounceVars, routeVars, filterVars, searchVars>>
    /\ ScrollEffects

\* Combobox.Input onFocus.
Focus(f) ==
    /\ Usable(f)
    /\ open' = [open EXCEPT ![f] = TRUE]
    /\ UNCHANGED <<activeIndex, attached>>
    /\ DropdownEvent

\* The timeout set by Combobox.Input onBlur.
BlurTimeout(f) ==
    /\ mounted
    /\ open' = [open EXCEPT ![f] = FALSE]
    /\ UNCHANGED <<activeIndex, attached>>
    /\ DropdownEvent

\* Combobox.Button onClick.
ToggleOpen(f) ==
    /\ Usable(f)
    /\ open' = [open EXCEPT ![f] = ~open[f]]
    /\ UNCHANGED <<activeIndex, attached>>
    /\ DropdownEvent

\* Math.min(prev + 1, length - 1)
ArrowDownIndex(prev, length) ==
    IF prev + 1 < length - 1 THEN prev + 1 ELSE length - 1

\* Math.max(prev - 1, 0)
ArrowUpIndex(prev) == IF prev - 1 > 0 THEN prev - 1 ELSE 0

\* Combobox.Input onKeyDown, ArrowDown.
ArrowDown(f) ==
    /\ Usable(f)
    /\ open' = [open EXCEPT ![f] = TRUE]
    /\ activeIndex' = [activeIndex EXCEPT
                         ![f] = ArrowDownIndex(@, Len(FilteredOf(f)))]
    /\ UNCHANGED attached
    /\ DropdownEvent

\* Combobox.Input onKeyDown, ArrowUp.
ArrowUp(f) ==
    /\ Usable(f)
    /\ open' = [open EXCEPT ![f] = TRUE]
    /\ activeIndex' = [activeIndex EXCEPT ![f] = ArrowUpIndex(@)]
    /\ UNCHANGED attached
    /\ DropdownEvent

\* Combobox.Option onMouseEnter, on a rendered row.
MouseEnter(f, i) ==
    /\ Usable(f) /\ attached[f]
    /\ i \in 0..(Len(FilteredOf(f)) - 1)
    /\ activeIndex' = [activeIndex EXCEPT ![f] = i]
    /\ UNCHANGED <<open, attached>>
    /\ DropdownEvent

\* Combobox.Options is rendered or removed by the Combobox, and with it the
\* element the virtualizer scrolls.
OptionsRendered(f, present) ==
    /\ Usable(f)
    /\ attached[f] # present
    /\ attached' = [attached EXCEPT ![f] = present]
    /\ UNCHANGED <<open, activeIndex>>
    /\ DropdownEvent

(***************************************************************************)
(* useDebounce                                                             *)
(***************************************************************************)
\* The value each instance debounces.
Raw(f) == IF f = "group" THEN logGroupQuery ELSE logStreamQuery

\* A pending timer: the value its callback will set, the ticks left before
\* it is due, and whether it is the handler of the instance's latest effect.
NewTimer(v) == [value |-> v, left |-> DelayTicks, cur |-> TRUE]

\* Mutant: the cleanup does not clear the timer of the previous effect.
ClearTimeout_Forgotten(ts) == {[t EXCEPT !.cur = FALSE] : t \in ts}

\* The effect's cleanup: clearTimeout(handler).
ClearTimeout(ts) == {t \in ts : ~t.cur}

\* The effect of useDebounce, run because the value became v.
useDebounceEffect(ts, v) == ClearTimeout(ts) \cup {NewTimer(v)}

\* Mutant: one timer for the two queries; a change of either restarts both.
QueriesBecome_Shared(g, s) ==
    LET new == [f \in Fields |-> IF f = "group" THEN g ELSE s]
    IN  /\ timers' = [f \in Fields |-> useDebounceEffect(timers[f], new[f])]
        /\ sinceInput' = [f \in Fields |-> 0]
        /\ emits' = [f \in Fields |-> 0]
        /\ UNCHANGED <<debounced, mounted>>

\* The debounce state after the two queries become g and s: the effect of an
\* instance runs again if its value has changed.
QueriesBecome(g, s) ==
    LET new == [f \in Fields |-> IF f = "group" THEN g ELSE s]
    IN  /\ timers' = [f \in Fields |->
                        IF new[f] = Raw(f) THEN timers[f]
                        ELSE useDebounceEffect(timers[f], new[f])]
        /\ sinceInput' = [f \in Fields |->
                            IF new[f] = Raw(f) THEN sinceInput[f] ELSE 0]
        /\ emits' = [f \in Fields |-> IF new[f] = Raw(f) THEN emits[f] ELSE 0]
        /\ UNCHANGED <<debounced, mounted>>

\* A timer of instance f is due: its callback calls setDebouncedValue(value).
Settle(f) ==
    /\ \E t \in timers[f] :
          /\ t.left = 0
          /\ timers' = [timers EXCEPT ![f] = @ \ {t}]
          /\ debounced' = [debounced EXCEPT ![f] = t.value]
    /\ emits' = [emits EXCEPT ![f] = IF @ < 2 THEN @ + 1 ELSE @]
    /\ lastOp' = "settle"
    /\ UNCHANGED <<mounted, sinceInput>>
    /\ UNCHANGED <<logGroups, logStreams, selectedLogGroup, selectedLogStream,
                   filterPattern, startTime, endTime, logEvents, loading, error,
                   logGroupQuery, logStreamQuery, inflight, issued>>
    /\ UNCHANGED <<routeVars, filterVars, searchVars>>
    /\ KeepsDropdowns

\* One tick of the clock passes; a timer that is due fires before it does.
Tick ==
    /\ \A f \in Fields : \A t \in timers[f] : t.left > 0
    /\ timers' = [f \in Fields |-> {[t EXCEPT !.left = @ - 1] : t \in timers[f]}]
    /\ sinceInput' = [f \in Fields |->
                        IF sinceInput[f] < DelayTicks THEN sinceInput[f] + 1
                        ELSE sinceInput[f]]
    /\ UNCHANGED <<debounced, mounted, emits, clientVars>>
    /\ UNCHANGED <<routeVars, filterVars, searchVars>>
    /\ KeepsDropdowns

\* Mutant: unmounting leaves the timers running.
Unmount_NoCleanup ==
    /\ mounted
    /\ mounted' = FALSE
    /\ lastOp' = "unmount"
    /\ UNCHANGED <<timers, debounced, sinceInput, emits>>
    /\ UNCHANGED <<logGroups, logStreams, selectedLogGroup, selectedLogStream,
                   filterPattern, startTime, endTime, logEvents, loading, error,
                   logGroupQuery, logStreamQuery, inflight, issued>>
    /\ UNCHANGED <<routeVars, filterVars, searchVars>>
    /\ KeepsDropdowns

\* The component unmounts: the cleanup of each instance's effect runs.
Unmount ==
    /\ mounted
    /\ mounted' = FALSE
    /\ timers' = [f \in Fields |-> ClearTimeout(timers[f])]
    /\ lastOp' = "unmount"
    /\ UNCHANGED <<debounced, sinceInput, emits>>
    /\ UNCHANGED <<logGroups, logStreams, selectedLogGroup, selectedLogStream,
                   filterPattern, startTime, endTime, logEvents, loading, error,
                   logGroupQuery, logStreamQuery, inflight, issued>>
    /\ UNCHANGED <<routeVars, filterVars, searchVars>>
    /\ KeepsDropdowns

(***************************************************************************)
(* route.ts: GET (log groups) and PUT (log streams), one invocation        *)
(***************************************************************************)
\* The backend's listing: at most MaxPages pages of at most MaxPageSize items.
MaxPages == 3
MaxPageSize == 2

\* What a call of client.send may throw.
AWSErrors == {"UnrecognizedClientException", "InvalidSignatureException",
              "AccessDeniedException", "ThrottlingException",
              "ResourceNotFoundException"}

\* A thrown value, by its name and __type fields ("": the field is absent).
\* AWS errors carry their code in either field; getClient throws an Error;
\* a value with neither field may be thrown as well.
Thrown(name, type) == [name |-> name, type |-> type]

Fieldless == Thrown("", "")

Failures ==
    {Thrown(n, "") : n \in AWSErrors} \cup {Thrown("Error", t) : t \in AWSErrors}
        \cup {Fieldless}

RECURSIVE SumTo(_, _)
SumTo(sizes, k) ==
    IF k = 0 THEN 0
    ELSE SumTo(sizes, k - 1) + (IF sizes[k] < 0 THEN 0 ELSE sizes[k])

\* The pages of a listing whose k-th page holds sizes[k] items (-1: the page
\* has no item list at all).  The items are numbered in listing order; every
\* page but the last carries a token, which names the page that follows.
PagesOf(sizes) ==
    [k \in 1..Len(sizes) |->
        [present   |-> sizes[k] >= 0,
         items     |-> [i \in 1..(IF sizes[k] < 0 THEN 0 ELSE sizes[k]) |->
                           SumTo(sizes, k - 1) + i],
         nextToken |-> IF k < Len(sizes) THEN k ELSE 0]]

\* The page the backend returns to a request carrying token tok (0: none).
PageFor(tok) == pages[tok + 1]

\* data.logGroups || [] , data.logStreams || []
OrEmpty(data) == IF data.present THEN data.items ELSE <<>>

\* Mutant: an access-denied failure is not recognised.
getFriendlyAWSError_NoAccessDenied(err) ==
    IF \/ err.name \in {"UnrecognizedClientException", "InvalidSignatureException"}
       \/ err.type \in {"UnrecognizedClientException", "InvalidSignatureException"}
    THEN "AWS credentials are invalid. Please check your configuration."
    ELSE ""

\* The friendly message of a thrown value ("": null).
getFriendlyAWSError(err) ==
    IF err.name = "" /\ err.type = "" THEN ""
    ELSE IF \/ err.name \in {"UnrecognizedClientException", "InvalidSignatureException"}
            \/ err.type \in {"UnrecognizedClientException", "InvalidSignatureException"}
    THEN "AWS credentials are invalid. Please check your configuration."
    ELSE IF err.name = "AccessDeniedException" \/ err.type = "AccessDeniedException"
    THEN "Access denied. Please check your AWS permissions."
    ELSE ""

FallbackError(m) ==
    CASE m = "GET"  -> "Failed to fetch log groups"
      [] m = "PUT"  -> "Failed to fetch log streams"
      [] m = "POST" -> "Failed to search logs"

\* Mutant: the error response also carries the items aggregated so far.
Catch_Partial(m, err) ==
    LET friendly == getFriendlyAWSError(err)
    IN  [status |-> IF friendly # "" THEN 401 ELSE 500,
         keys   |-> {"error", "logGroups"},
         error  |-> IF friendly # "" THEN friendly ELSE FallbackError(m),
         items  |-> routeLogGroups]

\* The catch block of a handler: the response for a thrown value.
Catch(m, err) ==
    LET friendly == getFriendlyAWSError(err)
    IN  [status |-> IF friendly # "" THEN 401 ELSE 500,
         keys   |-> {"error"},
         error  |-> IF friendly # "" THEN friendly ELSE FallbackError(m),
         items  |-> <<>>]

\* NextResponse.json({ logGroups }), ...({ logStreams }), ...({ events })
Json(key, items) ==
    [status |-> 200, keys |-> {key}, error |-> "", items |-> items]

\* The limits a request body may carry ({}: none).
LimitInputs == {{}, {-1}, {0}, {1}, {100}, {10000}, {10001}}

\* The time bounds a request body may carry, as epoch milliseconds.
TimeBounds == {{}, {0}, {60000}}

\* x && ... for an optional number and for an optional string of a body.
TruthyNumber(x) == x # {} /\ 0 \notin x
TruthyString(x) == x # {} /\ "" \notin x

\* limit && limit <= 10000 ? limit : 100
ClampLimit(limit) ==
    IF TruthyNumber(limit) /\ (\A l \in limit : l <= 10000) THEN limit ELSE {100}

\* ...(startTime && { startTime: Number(startTime) })
OptionalNumber(x) == IF TruthyNumber(x) THEN x ELSE {}

\* ...(filterPattern && { filterPattern })
OptionalString(x) == IF TruthyString(x) THEN x ELSE {}

\* POST: the FilterLogEventsCommandInput built from the body.
POSTParams(b) ==
    [logGroupName   |-> b.logGroupName,
     limit          |-> ClampLimit(b.limit),
     logStreamNames |-> OptionalString(b.logStreamName),
     filterPattern  |-> OptionalString(b.filterPattern),
     startTime      |-> OptionalNumber(b.startTime),
     endTime        |-> OptionalNumber(b.endTime)]

NoParams == [logGroupName |-> "", limit |-> {}, logStreamNames |-> {},
             filterPattern |-> {}, startTime |-> {}, endTime |-> {}]

\* Mutant: each page replaces what was aggregated before it.
Concat_Overwrite(acc, items) == items

\* logGroups.concat(...)
Concat(acc, items) == acc \o items

\* Mutant: the loop ends after the first page.
Continue_Never(tok) == FALSE

\* while (nextToken)
Continue(tok) == tok # 0

\* Mutant: the Error of getClient is thrown outside the try block.
Start_Escapes ==
    /\ pc = "start"
    /\ IF ~jsonOk
       THEN /\ response' = Catch(method, Thrown("SyntaxError", ""))
            /\ pc' = "done"
            /\ UNCHANGED <<routeLogGroups, nextToken, sent, params>>
       ELSE IF ~envOk
       THEN /\ pc' = "done"
            /\ UNCHANGED <<response, routeLogGroups, nextToken, sent, params>>
       ELSE /\ routeLogGroups' = <<>>
            /\ nextToken' = 0
            /\ params' = IF method = "POST" THEN POSTParams(body) ELSE params
            /\ sent' = <<0>>
            /\ pc' = "await"
            /\ UNCHANGED response
    /\ UNCHANGED <<method, pages, failAt, failWith, body, jsonOk, envOk>>
    /\ UNCHANGED <<clientVars, debounceVars, filterVars, dropVars, searchVars>>

\* The handler up to its first await on client.send: req.json() (PUT, POST)
\* rejects on a body that is not JSON, getClient() throws if the environment
\* is incomplete; otherwise the first request is sent, with no token.
Start ==
    /\ pc = "start"
    /\ IF ~jsonOk
       THEN /\ response' = Catch(method, Thrown("SyntaxError", ""))
            /\ pc' = "done"
            /\ UNCHANGED <<routeLogGroups, nextToken, sent, params>>
       ELSE IF ~envOk
       THEN /\ response' = Catch(method, Thrown("Error", ""))
            /\ pc' = "done"
            /\ UNCHANGED <<routeLogGroups, nextToken, sent, params>>
       ELSE /\ routeLogGroups' = <<>>
            /\ nextToken' = 0
            /\ params' = IF method = "POST" THEN POSTParams(body) ELSE params
            /\ sent' = <<0>>
            /\ pc' = "await"
            /\ UNCHANGED response
    /\ UNCHANGED <<method, pages, failAt, failWith, body, jsonOk, envOk>>
    /\ UNCHANGED <<clientVars, debounceVars, filterVars, dropVars, searchVars>>

\* GET: the call for a page settles.  A rejection goes to the catch block;
\* a page is appended, and the loop either sends the next request with the
\* page's token or returns what it has aggregated.
GETReceive ==
    /\ pc = "await" /\ method = "GET"
    /\ IF failAt = Len(sent)
       THEN /\ response' = Catch("GET", failWith)
            /\ pc' = "done"
            /\ UNCHANGED <<routeLogGroups, nextToken, sent>>
       ELSE LET data == PageFor(nextToken)
                all  == Concat(routeLogGroups, OrEmpty(data))
            IN  /\ routeLogGroups' = all
                /\ nextToken' = data.nextToken
                /\ IF Continue(data.nextToken)
                   THEN /\ sent' = Append(sent, data.nextToken)
                        /\ UNCHANGED <<pc, response>>
                   ELSE /\ response' = Json("logGroups", all)
                        /\ pc' = "done"
                        /\ UNCHANGED sent
    /\ UNCHANGED <<method, pages, failAt, failWith, body, jsonOk, params, envOk>>
    /\ UNCHANGED <<clientVars, debounceVars, filterVars, dropVars, searchVars>>

\* PUT: the single call settles; its page is the response.
PUTReceive ==
    /\ pc = "await" /\ method = "PUT"
    /\ IF failAt = Len(sent)
       THEN response' = Catch("PUT", failWith)
       ELSE response' = Json("logStreams", OrEmpty(PageFor(0)))
    /\ pc' = "done"
    /\ UNCHANGED <<routeLogGroups, nextToken, sent>>
    /\ UNCHANGED <<method, pages, failAt, failWith, body, jsonOk, params, envOk>>
    /\ UNCHANGED <<clientVars, debounceVars, filterVars, dropVars, searchVars>>

\* POST: the single call settles; its events are the response.
POSTReceive ==
    /\ pc = "await" /\ method = "POST"
    /\ IF failAt = Len(sent)
       THEN response' = Catch("POST", failWith)
       ELSE response' = Json("events", OrEmpty(PageFor(0)))
    /\ pc' = "done"
    /\ UNCHANGED <<routeLogGroups, nextToken, sent>>
    /\ UNCHANGED <<method, pages, failAt, failWith, body, jsonOk, params, envOk>>
    /\ UNCHANGED <<clientVars, debounceVars, filterVars, dropVars, searchVars>>

(***************************************************************************)
(* AdvancedSearch: the criteria list and buildFilterPattern.  A string is  *)
(* the sequence of its pieces; concatenation is \o.                        *)
(***************************************************************************)
\* The longest criteria list of a run, and the last value of the clock.
MaxCriteria == 3
MaxClock == 3

\* The values of a criterion's text input: empty, a blank, a word, and a
\* word after a blank.
CriterionValues == {<<>>, <<" ">>, <<"x">>, <<" ", "x">>}

CriterionFields    == {"message", "custom"}
CriterionOperators == {"contains", "equals", "startsWith", "regex"}
LogLevels          == {<<>>, <<"ERROR">>}

\* Number.prototype.toString on the values of the clock.
toString(n) == <<"0", "1", "2", "3", "4", "5", "6", "7", "8", "9">>[n + 1]

\* The criterion a new list starts with, and the one addCriteria appends.
NewCriterion(id) ==
    [id |-> id, field |-> "message", operator |-> "contains", value |-> <<>>]

\* Mutant: removeCriteria filters whatever the length of the list.
RemoveFrom_Unguarded(cs, id) == SelectSeq(cs, LAMBDA c : c.id # id)

\* if (criteria.length > 1) setCriteria(criteria.filter((c) => c.id !== id))
RemoveFrom(cs, id) ==
    IF Len(cs) > 1 THEN SelectSeq(cs, LAMBDA c : c.id # id) ELSE cs

\* criteria.map((c) => (c.id === id ? { ...c, ...updates } : c))
UpdateIn(cs, id, updates) ==
    [i \in 1..Len(cs) |->
        IF cs[i].id = id
        THEN [k \in DOMAIN cs[i] |->
                 IF k \in DOMAIN updates THEN updates[k] ELSE cs[i][k]]
        ELSE cs[i]]

\* String.prototype.trim
RECURSIVE trimStart(_)
trimStart(str) ==
    IF str # <<>> /\ Head(str) = " " THEN trimStart(Tail(str)) ELSE str

RECURSIVE trimEnd(_)
trimEnd(str) ==
    IF str # <<>> /\ str[Len(str)] = " "
    THEN trimEnd(SubSeq(str, 1, Len(str) - 1)) ELSE str

trim(str) == trimEnd(trimStart(str))

\* `"${value}"`
Quoted(value) == <<"\"">> \o value \o <<"\"">>

\* The body of the forEach: what one criterion pushes onto patterns.
Pushed(c) ==
    IF trim(c.value) = <<>> THEN <<>>
    ELSE CASE c.field = "message" ->
                 (CASE c.operator \in {"contains", "equals", "startsWith"}
                          -> <<Quoted(c.value)>>
                    [] c.operator = "regex" -> <<c.value>>
                    [] OTHER -> <<>>)
           [] c.field = "custom" -> <<c.value>>
           [] OTHER -> <<>>

\* criteria.forEach(...), from the patterns pushed before it.
RECURSIVE forEach(_, _)
forEach(cs, patterns) ==
    IF cs = <<>> THEN patterns
    ELSE forEach(Tail(cs), patterns \o Pushed(Head(cs)))

\* Array.prototype.join
RECURSIVE join(_, _)
join(strs, sep) ==
    IF strs = <<>> THEN <<>>
    ELSE IF Len(strs) = 1 THEN strs[1]
    ELSE strs[1] \o sep \o join(Tail(strs), sep)

\* Mutant: a single pattern is parenthesised under OR as well.
Combine_AlwaysJoins(patterns, op) ==
    IF Len(patterns) = 0 THEN <<>>
    ELSE IF op = "AND" THEN join(patterns, <<" ">>)
    ELSE <<"(">> \o join(patterns, <<" OR ">>) \o <<")">>

\* The end of buildFilterPattern: the patterns combined.
Combine(patterns, op) ==
    IF Len(patterns) = 0 THEN <<>>
    ELSE IF Len(patterns) = 1 THEN patterns[1]
    ELSE IF op = "AND" THEN join(patterns, <<" ">>)
    ELSE <<"(">> \o join(patterns, <<" OR ">>) \o <<")">>

buildFilterPattern ==
    Combine(forEach(criteria, IF logLevel # <<>> THEN <<logLevel>> ELSE <<>>),
            combineOperator)

NotSearched == [called |-> FALSE, pattern |-> <<>>]

\* The component after its first render; the clock shows some time after
\* the epoch, so Date.now().toString() is not "1".
SearchInit ==
    /\ criteria = <<NewCriterion("1")>>
    /\ logLevel = <<>>
    /\ combineOperator = "AND"
    /\ now = 2
    /\ searchOp = "mount"
    /\ searched = NotSearched

\* A handler of AdvancedSearch leaves the log viewer as it is.
SearchEvent(op) ==
    /\ searchOp' = op
    /\ UNCHANGED <<clientVars, debounceVars, routeVars, filterVars, dropVars>>

\* Time passes: Date.now() returns a later value.
ClockAdvance ==
    /\ now < MaxClock
    /\ now' = now + 1
    /\ UNCHANGED <<criteria, logLevel, combineOperator, searchOp, searched>>
    /\ UNCHANGED <<clientVars, debounceVars, routeVars, filterVars, dropVars>>

addCriteria ==
    /\ Len(criteria) < MaxCriteria
    /\ criteria' = Append(criteria, NewCriterion(toString(now)))
    /\ UNCHANGED <<logLevel, combineOperator, now, searched>>
    /\ SearchEvent("addCriteria")

removeCriteria(id) ==
    /\ \E i \in 1..Len(criteria) : criteria[i].id = id
    /\ criteria' = RemoveFrom(criteria, id)
    /\ UNCHANGED <<logLevel, combineOperator, now, searched>>
    /\ SearchEvent("removeCriteria")

updateCriteria(id, updates) ==
    /\ \E i \in 1..Len(criteria) : criteria[i].id = id
    /\ criteria' = UpdateIn(criteria, id, updates)
    /\ UNCHANGED <<logLevel, combineOperator, now, searched>>
    /\ SearchEvent("updateCriteria")

resetCriteria ==
    /\ criteria' = <<NewCriterion("1")>>
    /\ logLevel' = <<>>
    /\ UNCHANGED <<combineOperator, now, searched>>
    /\ SearchEvent("resetCriteria")

\* The log level buttons.
SetLogLevel(level) ==
    /\ logLevel' = level
    /\ UNCHANGED <<criteria, combineOperator, now, searched>>
    /\ SearchEvent("setLogLevel")

\* The select of the combine operator.
SetCombineOperator(op) ==
    /\ combineOperator' = op
    /\ UNCHANGED <<criteria, logLevel, now, searched>>
    /\ SearchEvent("setCombineOperator")

handleSearch ==
    /\ searched' = [called |-> TRUE, pattern |-> buildFilterPattern]
    /\ UNCHANGED <<criteria, logLevel, combineOperator, now>>
    /\ SearchEvent("handleSearch")

(***************************************************************************)
(* Initial state: the component is mounted; the mount effect has called    *)
(* fetchLogGroups, and the effect on selectedLogGroup ran with "".         *)
(***************************************************************************)
ComponentInit ==
    /\ logGroups = <<>>
    /\ logStreams = <<>>
    /\ selectedLogGroup = ""
    /\ selectedLogStream = ""
    /\ filterPattern = ""
    /\ startTime = ""
    /\ endTime = ""
    /\ logEvents = <<>>
    /\ loading = TRUE
    /\ error = ""
    /\ logGroupQuery = ""
    /\ logStreamQuery = ""
    /\ inflight = {[id |-> 1, kind |-> "groups", logGroupName |-> "",
                    logStreamName |-> {}]}
    /\ issued = 1
    /\ lastOp = "mount"
    /\ debounced = [f \in Fields |-> ""]
    /\ timers = [f \in Fields |-> {NewTimer("")}]
    /\ mounted = TRUE
    /\ sinceInput = [f \in Fields |-> 0]
    /\ emits = [f \in Fields |-> 0]
    /\ open = [f \in Fields |-> FALSE]
    /\ activeIndex = [f \in Fields |-> 0]
    /\ attached = [f \in Fields |-> FALSE]
    /\ scrollCall = [f \in Fields |-> NoCall]

NoResponse == [status |-> 0, keys |-> {}, error |-> "", items |-> <<>>]

\* No handler of route.ts is under study.
RouteIdle ==
    /\ method = "" /\ pages = <<>> /\ failAt = 0 /\ failWith = Fieldless
    /\ body = NoBody /\ jsonOk = TRUE /\ params = NoParams
    /\ envOk = TRUE /\ pc = "idle"
    /\ routeLogGroups = <<>> /\ nextToken = 0 /\ sent = <<>>
    /\ response = NoResponse

\* No dropdown list is under study.
FilterIdle == fItems = <<>> /\ fQuery = "" /\ fView = <<>>

Init == ComponentInit /\ RouteIdle /\ FilterIdle /\ SearchInit

\* The body the component sends to a handler for group ga.
BodyFor(m) ==
    CASE m = "GET"  -> NoBody
      [] m = "PUT"  -> [NoBody EXCEPT !.logGroupName = "ga"]
      [] m = "POST" -> [NoBody EXCEPT !.logGroupName = "ga", !.limit = {100}]

\* A handler is invoked against a backend listing; call number failAt of
\* client.send (0: none) rejects with failWith.
InitRoute ==
    /\ ComponentInit /\ FilterIdle /\ SearchInit
    /\ method \in {"GET", "PUT", "POST"}
    /\ body = BodyFor(method)
    /\ jsonOk \in BOOLEAN
    /\ method = "GET" => jsonOk
    /\ params = NoParams
    /\ \E n \in 1..MaxPages :
          \E sizes \in [1..n -> -1..MaxPageSize] :
             /\ pages = PagesOf(sizes)
             /\ failAt \in 0..n
    /\ failWith \in Failures
    /\ failAt = 0 => failWith = Fieldless
    /\ envOk \in BOOLEAN
    /\ pc = "start"
    /\ routeLogGroups = <<>> /\ nextToken = 0 /\ sent = <<>>
    /\ response = NoResponse

\* POST is invoked with a body: a group, and any of the optional fields.
\* The backend answers with one page of events.
InitPost ==
    /\ ComponentInit /\ FilterIdle /\ SearchInit
    /\ method = "POST"
    /\ \E ls \in {{}, {"a1"}}, fp \in {{}, {""}, {"ERROR"}}, st \in TimeBounds,
          et \in TimeBounds, l \in LimitInputs :
          body = [logGroupName |-> "ga", logStreamName |-> ls,
                  filterPattern |-> fp, startTime |-> st, endTime |-> et,
                  limit |-> l]
    /\ jsonOk = TRUE
    /\ params = NoParams
    /\ \E size \in 0..MaxPageSize : pages = PagesOf(<<size>>)
    /\ failAt = 0 /\ failWith = Fieldless
    /\ envOk = TRUE
    /\ pc = "start"
    /\ routeLogGroups = <<>> /\ nextToken = 0 /\ sent = <<>>
    /\ response = NoResponse

\* The largest criteria list buildFilterPattern is applied to.
MaxBuiltCriteria == 2

\* AdvancedSearch with criteria as the form can hold them, any log level and
\* either combine operator.
InitPattern ==
    /\ ComponentInit /\ RouteIdle /\ FilterIdle
    /\ \E n \in 1..MaxBuiltCriteria :
          \E fs \in [1..n -> CriterionFields], os \in [1..n -> CriterionOperators],
             vs \in [1..n -> CriterionValues] :
             criteria = [i \in 1..n |->
                            [id |-> toString(i), field |-> fs[i],
                             operator |-> os[i], value |-> vs[i]]]
    /\ logLevel \in LogLevels
    /\ combineOperator \in {"AND", "OR"}
    /\ now = 2
    /\ searchOp = "mount"
    /\ searched = NotSearched

RECURSIVE SeqsUpTo(_, _)
SeqsUpTo(S, n) ==
    IF n = 0 THEN {<<>>}
    ELSE SeqsUpTo(S, n - 1) \cup [1..n -> S]

\* A dropdown over a list of names, rendered with an empty settled query.
InitFilter ==
    /\ ComponentInit /\ RouteIdle /\ SearchInit
    /\ fItems \in SeqsUpTo(FilterNames, MaxItems)
    /\ fQuery = ""
    /\ fView = Filtered(fItems, fQuery)

(***************************************************************************)
(* fetchLogGroups: the continuation after the awaits                       *)
(***************************************************************************)
FetchLogGroupsOk(r) ==
    /\ r \in inflight /\ r.kind = "groups"
    /\ inflight' = inflight \ {r}
    /\ logGroups' = BackendGroups
    /\ loading' = FALSE
    /\ mounted
    /\ lastOp' = "fetchLogGroups"
    /\ UNCHANGED <<debounceVars, routeVars, filterVars, searchVars>>
    /\ UNCHANGED <<logStreams, selectedLogGroup, selectedLogStream, filterPattern,
                   startTime, endTime, logEvents, error, logGroupQuery,
                   logStreamQuery, issued>>
    /\ KeepsDropdowns

\* Mutant: a failed fetch of the groups is issued again.
FetchLogGroupsFail_Retries(r, msg) ==
    /\ r \in inflight /\ r.kind = "groups"
    /\ inflight' = (inflight \ {r}) \cup {[r EXCEPT !.id = issued + 1]}
    /\ issued' = issued + 1
    /\ error' = msg
    /\ loading' = TRUE
    /\ mounted
    /\ lastOp' = "fetchLogGroupsCatch"
    /\ UNCHANGED <<debounceVars, routeVars, filterVars, searchVars>>
    /\ UNCHANGED <<logGroups, logStreams, selectedLogGroup, selectedLogStream,
                   filterPattern, startTime, endTime, logEvents, logGroupQuery,
                   logStreamQuery>>
    /\ KeepsDropdowns

FetchLogGroupsFail(r, msg) ==
    /\ r \in inflight /\ r.kind = "groups"
    /\ inflight' = inflight \ {r}
    /\ error' = msg
    /\ loading' = FALSE
    /\ mounted
    /\ lastOp' = "fetchLogGroupsCatch"
    /\ UNCHANGED <<debounceVars, routeVars, filterVars, searchVars>>
    /\ UNCHANGED <<logGroups, logStreams, selectedLogGroup, selectedLogStream,
                   filterPattern, startTime, endTime, logEvents, logGroupQuery,
                   logStreamQuery, issued>>
    /\ KeepsDropdowns

(***************************************************************************)
(* fetchLogStreams                                                         *)
(***************************************************************************)
\* The call up to the first await.
fetchLogStreams(logGroupName) ==
    IF logGroupName = ""
    THEN UNCHANGED <<loading, error, inflight, issued>>
    ELSE /\ loading' = TRUE
         /\ error' = ""
         /\ Send("streams", [NoBody EXCEPT !.logGroupName = logGroupName])

\* The continuation after the awaits.
FetchLogStreamsOk(r) ==
    /\ r \in inflight /\ r.kind = "streams"
    /\ inflight' = inflight \ {r}
    /\ logStreams' = BackendStreams(r.logGroupName)
    /\ loading' = FALSE
    /\ mounted
    /\ lastOp' = "fetchLogStreams"
    /\ UNCHANGED <<debounceVars, routeVars, filterVars, searchVars>>
    /\ UNCHANGED <<logGroups, selectedLogGroup, selectedLogStream, filterPattern,
                   startTime, endTime, logEvents, error, logGroupQuery,
                   logStreamQuery, issued>>
    /\ KeepsDropdowns

FetchLogStreamsFail(r, msg) ==
    /\ r \in inflight /\ r.kind = "streams"
    /\ inflight' = inflight \ {r}
    /\ error' = msg
    /\ loading' = FALSE
    /\ mounted
    /\ lastOp' = "fetchLogStreamsCatch"
    /\ UNCHANGED <<debounceVars, routeVars, filterVars, searchVars>>
    /\ UNCHANGED <<logGroups, logStreams, selectedLogGroup, selectedLogStream,
                   filterPattern, startTime, endTime, logEvents, logGroupQuery,
                   logStreamQuery, issued>>
    /\ KeepsDropdowns

(***************************************************************************)
(* The effect on [selectedLogGroup]: runs when the value has changed.      *)
(***************************************************************************)
\* Mutant: the effect's else branch forgets setLogStreams([]).
GroupEffect_KeepsStreams(old, new) ==
    IF new = old
    THEN UNCHANGED <<logStreams, selectedLogStream, loading, error, inflight, issued>>
    ELSE IF new # ""
    THEN /\ fetchLogStreams(new)
         /\ UNCHANGED <<logStreams, selectedLogStream>>
    ELSE /\ selectedLogStream' = ""
         /\ UNCHANGED <<logStreams, loading, error, inflight, issued>>

\* Mutant: the effect's else branch forgets setSelectedLogStream("").
GroupEffect_KeepsSelectedStream(old, new) ==
    IF new = old
    THEN UNCHANGED <<logStreams, selectedLogStream, loading, error, inflight, issued>>
    ELSE IF new # ""
    THEN /\ fetchLogStreams(new)
         /\ UNCHANGED <<logStreams, selectedLogStream>>
    ELSE /\ logStreams' = <<>>
         /\ UNCHANGED <<selectedLogStream, loading, error, inflight, issued>>

GroupEffect(old, new) ==
    IF new = old
    THEN UNCHANGED <<logStreams, selectedLogStream, loading, error, inflight, issued>>
    ELSE IF new # ""
    THEN /\ fetchLogStreams(new)
         /\ UNCHANGED <<logStreams, selectedLogStream>>
    ELSE /\ logStreams' = <<>>
         /\ selectedLogStream' = ""
         /\ UNCHANGED <<loading, error, inflight, issued>>

\* Log group Combobox onChange, followed by the effect.
SelectLogGroup(value) ==
    /\ value \in Range(filteredLogGroups) \cup {""}
    /\ selectedLogGroup' = value
    /\ GroupEffect(selectedLogGroup, value)
    /\ mounted
    /\ lastOp' = "selectLogGroup"
    /\ UNCHANGED <<debounceVars, routeVars, filterVars, searchVars>>
    /\ UNCHANGED <<logGroups, filterPattern, startTime, endTime, logEvents,
                   logGroupQuery, logStreamQuery>>
    /\ KeepsDropdowns

\* Mutant: selecting a stream also drops the event list.
SelectLogStream_DropsEvents(value) ==
    /\ selectedLogGroup # ""
    /\ value \in Range(filteredLogStreams) \cup {""}
    /\ selectedLogStream' = value
    /\ logEvents' = <<>>
    /\ mounted
    /\ lastOp' = "selectLogStream"
    /\ UNCHANGED <<debounceVars, routeVars, filterVars, searchVars>>
    /\ UNCHANGED <<logGroups, logStreams, selectedLogGroup, filterPattern,
                   startTime, endTime, loading, error, logGroupQuery,
                   logStreamQuery, inflight, issued>>
    /\ KeepsDropdowns

\* Log stream Combobox onChange (disabled while no group is selected).
SelectLogStream(value) ==
    /\ selectedLogGroup # ""
    /\ value \in Range(filteredLogStreams) \cup {""}
    /\ selectedLogStream' = value
    /\ mounted
    /\ lastOp' = "selectLogStream"
    /\ UNCHANGED <<debounceVars, routeVars, filterVars, searchVars>>
    /\ UNCHANGED <<logGroups, logStreams, selectedLogGroup, filterPattern,
                   startTime, endTime, logEvents, loading, error, logGroupQuery,
                   logStreamQuery, inflight, issued>>
    /\ KeepsDropdowns

(***************************************************************************)
(* The text inputs                                                         *)
(***************************************************************************)
SetFilterPattern(v) ==
    /\ v \in FilterPatterns /\ v # filterPattern
    /\ filterPattern' = v
    /\ mounted
    /\ lastOp' = "input"
    /\ UNCHANGED <<debounceVars, routeVars, filterVars, searchVars>>
    /\ UNCHANGED <<logGroups, logStreams, selectedLogGroup, selectedLogStream,
                   startTime, endTime, logEvents, loading, error, logGroupQuery,
                   logStreamQuery, inflight, issued>>
    /\ KeepsDropdowns

SetStartTime(v) ==
    /\ v # startTime
    /\ startTime' = v
    /\ mounted
    /\ lastOp' = "input"
    /\ UNCHANGED <<debounceVars, routeVars, filterVars, searchVars>>
    /\ UNCHANGED <<logGroups, logStreams, selectedLogGroup, selectedLogStream,
                   filterPattern, endTime, logEvents, loading, error, logGroupQuery,
                   logStreamQuery, inflight, issued>>
    /\ KeepsDropdowns

SetEndTime(v) ==
    /\ v # endTime
    /\ endTime' = v
    /\ mounted
    /\ lastOp' = "input"
    /\ UNCHANGED <<debounceVars, routeVars, filterVars, searchVars>>
    /\ UNCHANGED <<logGroups, logStreams, selectedLogGroup, selectedLogStream,
                   filterPattern, startTime, logEvents, loading, error, logGroupQuery,
                   logStreamQuery, inflight, issued>>
    /\ KeepsDropdowns

\* Mutant: every change of the group query fetches the log groups again.
SetLogGroupQuery_Refetches(v) ==
    /\ v # logGroupQuery
    /\ issued < MaxTypedRequests
    /\ logGroupQuery' = v
    /\ QueriesBecome(v, logStreamQuery)
    /\ loading' = TRUE
    /\ error' = ""
    /\ Send("groups", NoBody)
    /\ mounted
    /\ lastOp' = "setLogGroupQuery"
    /\ UNCHANGED <<routeVars, filterVars, searchVars>>
    /\ UNCHANGED <<logGroups, logStreams, selectedLogGroup, selectedLogStream,
                   filterPattern, startTime, endTime, logEvents, logStreamQuery>>
    /\ KeepsDropdowns

\* Group Combobox.Input onChange, followed by the effect of useDebounce.
SetLogGroupQuery(v) ==
    /\ v # logGroupQuery
    /\ logGroupQuery' = v
    /\ QueriesBecome(v, logStreamQuery)
    /\ mounted
    /\ lastOp' = "setLogGroupQuery"
    /\ UNCHANGED <<routeVars, filterVars, searchVars>>
    /\ UNCHANGED <<logGroups, logStreams, selectedLogGroup, selectedLogStream,
                   filterPattern, startTime, endTime, logEvents, loading, error,
                   logStreamQuery, inflight, issued>>
    /\ KeepsDropdowns

\* The stream input is disabled while no group is selected.
SetLogStreamQuery(v) ==
    /\ selectedLogGroup # ""
    /\ v # logStreamQuery
    /\ logStreamQuery' = v
    /\ QueriesBecome(logGroupQuery, v)
    /\ mounted
    /\ lastOp' = "setLogStreamQuery"
    /\ UNCHANGED <<routeVars, filterVars, searchVars>>
    /\ UNCHANGED <<logGroups, logStreams, selectedLogGroup, selectedLogStream,
                   filterPattern, startTime, endTime, logEvents, loading, error,
                   logGroupQuery, inflight, issued>>
    /\ KeepsDropdowns

(***************************************************************************)
(* searchLogs                                                              *)
(***************************************************************************)
\* A spread `...(x && { k: v })`: the field is present only for a truthy x.
Opt(x, v) == IF x = "" THEN {} ELSE {v}

searchParams ==
    [logGroupName  |-> selectedLogGroup,
     logStreamName |-> Opt(selectedLogStream, selectedLogStream),
     filterPattern |-> Opt(filterPattern, filterPattern),
     startTime     |-> Opt(startTime, ToMillis(startTime)),
     endTime       |-> Opt(endTime, ToMillis(endTime)),
     limit         |-> {100}]

\* Mutant: the call does not check that a group is selected.
searchLogs_NoValidation ==
    /\ loading' = TRUE
    /\ error' = ""
    /\ Send("search", searchParams)

\* The call up to the first await.
searchLogs ==
    IF selectedLogGroup = ""
    THEN /\ error' = "Please select a log group"
         /\ UNCHANGED <<loading, inflight, issued>>
    ELSE /\ loading' = TRUE
         /\ error' = ""
         /\ Send("search", searchParams)

\* Form onSubmit; the submit button is disabled={loading || !selectedLogGroup}.
SubmitSearch ==
    /\ ~loading
    /\ selectedLogGroup # ""
    /\ searchLogs
    /\ mounted
    /\ lastOp' = "submit"
    /\ UNCHANGED <<debounceVars, routeVars, filterVars, searchVars>>
    /\ UNCHANGED <<logGroups, logStreams, selectedLogGroup, selectedLogStream,
                   filterPattern, startTime, endTime, logEvents, logGroupQuery,
                   logStreamQuery>>
    /\ KeepsDropdowns

\* The form's onSubmit, for a submit event that does not come from the
\* button (form.requestSubmit()).
OnSubmit ==
    /\ searchLogs
    /\ mounted
    /\ lastOp' = "submit"
    /\ UNCHANGED <<debounceVars, routeVars, filterVars, searchVars>>
    /\ UNCHANGED <<logGroups, logStreams, selectedLogGroup, selectedLogStream,
                   filterPattern, startTime, endTime, logEvents, logGroupQuery,
                   logStreamQuery>>
    /\ KeepsDropdowns

\* Mutant: the events of the response are appended to the stored list.
SearchLogsOk_Merges(r) ==
    /\ r \in inflight /\ r.kind = "search"
    /\ inflight' = inflight \ {r}
    /\ logEvents' = logEvents \o EventsOf(r)
    /\ loading' = FALSE
    /\ mounted
    /\ lastOp' = "searchLogs"
    /\ UNCHANGED <<debounceVars, routeVars, filterVars, searchVars>>
    /\ UNCHANGED <<logGroups, logStreams, selectedLogGroup, selectedLogStream,
                   filterPattern, startTime, endTime, error, logGroupQuery,
                   logStreamQuery, issued>>
    /\ KeepsDropdowns

\* The continuation after the awaits.
SearchLogsOk(r) ==
    /\ r \in inflight /\ r.kind = "search"
    /\ inflight' = inflight \ {r}
    /\ logEvents' = EventsOf(r)
    /\ loading' = FALSE
    /\ mounted
    /\ lastOp' = "searchLogs"
    /\ UNCHANGED <<debounceVars, routeVars, filterVars, searchVars>>
    /\ UNCHANGED <<logGroups, logStreams, selectedLogGroup, selectedLogStream,
                   filterPattern, startTime, endTime, error, logGroupQuery,
                   logStreamQuery, issued>>
    /\ KeepsDropdowns

\* Mutant: the catch block also empties the event list.
SearchLogsFail_WipesEvents(r, msg) ==
    /\ r \in inflight /\ r.kind = "search"
    /\ inflight' = inflight \ {r}
    /\ error' = msg
    /\ logEvents' = <<>>
    /\ loading' = FALSE
    /\ mounted
    /\ lastOp' = "searchLogsCatch"
    /\ UNCHANGED <<debounceVars, routeVars, filterVars, searchVars>>
    /\ UNCHANGED <<logGroups, logStreams, selectedLogGroup, selectedLogStream,
                   filterPattern, startTime, endTime, logGroupQuery,
                   logStreamQuery, issued>>
    /\ KeepsDropdowns

\* The catch and finally blocks.
SearchLogsFail(r, msg) ==
    /\ r \in inflight /\ r.kind = "search"
    /\ inflight' = inflight \ {r}
    /\ error' = msg
    /\ loading' = FALSE
    /\ mounted
    /\ lastOp' = "searchLogsCatch"
    /\ UNCHANGED <<debounceVars, routeVars, filterVars, searchVars>>
    /\ UNCHANGED <<logGroups, logStreams, selectedLogGroup, selectedLogStream,
                   filterPattern, startTime, endTime, logEvents, logGroupQuery,
                   logStreamQuery, issued>>
    /\ KeepsDropdowns

(***************************************************************************)
(* clearFilters, followed by the effect on [selectedLogGroup]              *)
(***************************************************************************)
clearFilters ==
    /\ selectedLogGroup' = ""
    /\ filterPattern' = ""
    /\ startTime' = ""
    /\ endTime' = ""
    /\ logEvents' = <<>>
    /\ logGroupQuery' = ""
    /\ logStreamQuery' = ""
    /\ error' = ""
    /\ IF selectedLogGroup # ""
       THEN /\ logStreams' = <<>>          \* the effect's else branch
            /\ selectedLogStream' = ""
       ELSE /\ selectedLogStream' = ""     \* setSelectedLogStream("") alone
            /\ UNCHANGED logStreams
    /\ QueriesBecome("", "")
    /\ mounted
    /\ lastOp' = "clearFilters"
    /\ UNCHANGED <<routeVars, filterVars, searchVars>>
    /\ UNCHANGED <<logGroups, loading, inflight, issued>>
    /\ KeepsDropdowns

(***************************************************************************)
(* Specifications                                                          *)
(***************************************************************************)
\* The continuations of the requests in flight, in any order.
Completion ==
    \/ \E r \in inflight : FetchLogGroupsOk(r)
    \/ \E r \in inflight : \E msg \in ErrorsOf("groups") : FetchLogGroupsFail(r, msg)
    \/ \E r \in inflight : FetchLogStreamsOk(r)
    \/ \E r \in inflight : \E msg \in ErrorsOf("streams") : FetchLogStreamsFail(r, msg)
    \/ \E r \in inflight : SearchLogsOk(r)
    \/ \E r \in inflight : \E msg \in ErrorsOf("search") : SearchLogsFail(r, msg)

\* Selections, submit and clear, in runs of at most `limit` requests.
Operate(limit) ==
    \/ \E g \in GroupNames \cup {""} : SelectLogGroup(g) /\ issued' <= limit
    \/ \E s \in StreamNames \cup {""} : SelectLogStream(s)
    \/ SubmitSearch /\ issued' <= limit
    \/ clearFilters

\* Typing in the text inputs.
Typing ==
    \/ \E v \in FilterPatterns : SetFilterPattern(v)
    \/ \E v \in TimeInputs : SetStartTime(v)
    \/ \E v \in TimeInputs : SetEndTime(v)

\* The component with nothing typed in the dropdown queries, for runs of at
\* most MaxRequests requests.
Next == Completion \/ Operate(MaxRequests) \/ Typing

Spec == Init /\ [][Next]_vars

\* Runs in which nothing is typed, of at most MaxOverlapRequests requests.
NextNoTyping == Completion \/ Operate(MaxOverlapRequests)

SpecNoTyping == Init /\ [][NextNoTyping]_vars

\* The same runs, with submit events dispatched to the form whatever the
\* state of the submit button.
NextOnSubmit ==
    \/ Completion
    \/ Operate(MaxRequests)
    \/ OnSubmit /\ issued' <= MaxRequests

SpecOnSubmit == Init /\ [][NextOnSubmit]_vars

\* Typing in the dropdown queries: "", "g" or "ga" for the groups, "" or "g"
\* for the streams.
QueryTyping ==
    \/ \E v \in QueryInputs : SetLogGroupQuery(v)
    \/ \E v \in ShortQueries : SetLogStreamQuery(v)

\* The clock and the timers of useDebounce.
Timing ==
    \/ \E f \in Fields : Settle(f)
    \/ Tick

\* The two debounced queries over time, from mount to unmount, with the
\* group selection that enables the stream query; the listings succeed, and
\* a run issues at most MaxQueryRequests requests.
NextDebounce ==
    \/ \E r \in inflight : FetchLogGroupsOk(r)
    \/ \E r \in inflight : FetchLogStreamsOk(r)
    \/ \E g \in GroupNames \cup {""} : SelectLogGroup(g) /\ issued' <= MaxQueryRequests
    \/ clearFilters
    \/ QueryTyping
    \/ Timing
    \/ Unmount

SpecDebounce == Init /\ [][NextDebounce]_vars

\* Typing "" or "g" in the dropdown queries.
ShortQueryTyping ==
    \/ \E v \in ShortQueries : SetLogGroupQuery(v)
    \/ \E v \in ShortQueries : SetLogStreamQuery(v)

\* Searches with typing in the dropdown queries; the requests succeed, and
\* a run issues at most MaxTypedRequests of them.
NextQueries ==
    \/ \E r \in inflight : FetchLogGroupsOk(r)
    \/ \E r \in inflight : FetchLogStreamsOk(r)
    \/ \E r \in inflight : SearchLogsOk(r)
    \/ \E g \in GroupNames \cup {""} : SelectLogGroup(g) /\ issued' <= MaxTypedRequests
    \/ SubmitSearch /\ issued' <= MaxTypedRequests
    \/ clearFilters
    \/ ShortQueryTyping
    \/ Timing

SpecQueries == Init /\ [][NextQueries]_vars

\* Searches between changes of the time bounds, the epoch among the values;
\* the requests succeed, and a run issues at most MaxTypedRequests of them.
NextTimes ==
    \/ \E r \in inflight : FetchLogGroupsOk(r)
    \/ \E r \in inflight : FetchLogStreamsOk(r)
    \/ \E r \in inflight : SearchLogsOk(r)
    \/ \E g \in GroupNames : SelectLogGroup(g) /\ issued' <= MaxTypedRequests
    \/ SubmitSearch /\ issued' <= MaxTypedRequests
    \/ \E v \in EpochInputs : SetStartTime(v)
    \/ \E v \in EpochInputs : SetEndTime(v)

SpecTimes == Init /\ [][NextTimes]_vars

\* The events of the two dropdowns.
DropdownEvents ==
    \/ \E f \in Fields : Focus(f)
    \/ \E f \in Fields : BlurTimeout(f)
    \/ \E f \in Fields : ToggleOpen(f)
    \/ \E f \in Fields : ArrowDown(f)
    \/ \E f \in Fields : ArrowUp(f)
    \/ \E f \in Fields : \E i \in 0..MaxActiveIndex : MouseEnter(f, i)
    \/ \E f \in Fields : \E present \in BOOLEAN : OptionsRendered(f, present)

\* The two dropdowns over lists that load and change with the selected
\* group (ga has two streams, gb one); the listings succeed, and a run issues
\* at most MaxTypedRequests requests.
NextDropdown ==
    \/ \E r \in inflight : FetchLogGroupsOk(r)
    \/ \E r \in inflight : FetchLogStreamsOk(r)
    \/ \E g \in GroupNames \cup {""} : SelectLogGroup(g) /\ issued' <= MaxTypedRequests
    \/ DropdownEvents

SpecDropdown == Init /\ [][NextDropdown]_vars

\* One invocation of GET, PUT or POST.  A call of client.send settles, and the
\* continuation of the handler runs.
NextRoute == Start \/ GETReceive \/ PUTReceive \/ POSTReceive

SpecRoute == InitRoute /\ [][NextRoute]_vars /\ WF_vars(NextRoute)

\* POST on every body.
NextPost == Start \/ POSTReceive

SpecPost == InitPost /\ [][NextPost]_vars /\ WF_vars(NextPost)

\* The ids a criterion may carry.
CriterionIds == {"1"} \cup {toString(t) : t \in 2..MaxClock}

\* The criteria list under its handlers, with the clock advancing between
\* some of the calls.
NextCriteria ==
    \/ ClockAdvance
    \/ addCriteria
    \/ \E id \in CriterionIds : removeCriteria(id)
    \/ \E id \in CriterionIds : \E v \in {<<>>, <<"x">>} :
          updateCriteria(id, [value |-> v])
    \/ resetCriteria
    \/ \E level \in LogLevels : SetLogLevel(level)
    \/ \E op \in {"AND", "OR"} : SetCombineOperator(op)

SpecCriteria == Init /\ [][NextCriteria]_vars

\* buildFilterPattern on every form.
NextPattern == handleSearch

SpecPattern == InitPattern /\ [][NextPattern]_vars

\* A dropdown list under a changing settled query.
NextFilter == \E q \in FilterQueries : FilterSettles(q)

SpecFilter == InitFilter /\ [][NextFilter]_vars

(***************************************************************************)
(* Properties                                                              *)
(***************************************************************************)

\* A request whose promise settles in this step.
Completes(r) == r \in inflight /\ r \notin inflight'

\* C1 (generation guard for search): when two searches overlap, the result
\* of the later-issued one is the one kept; once the event list holds the
\* result of a search, the completion of an earlier-issued search does not
\* replace it.
C1_SearchGenerationGuard ==
    [][\A r \in inflight :
          (/\ r.kind = "search"
           /\ Completes(r)
           /\ logEvents # <<>>
           /\ logEvents[1].eventId > r.id)
          => logEvents' = logEvents]_vars

\* C2 (cascading reset): a stream fetch issued for a group G1 that completes
\* while another group G2 is selected leaves no stream of G1 in the stream
\* list.
C2_CascadingReset ==
    [][\A r \in inflight :
          (/\ r.kind = "streams"
           /\ Completes(r)
           /\ selectedLogGroup # ""
           /\ r.logGroupName # selectedLogGroup)
          => Range(logStreams') \cap Range(BackendStreams(r.logGroupName)) = {}]_vars

\* C3 (stream list consistent with the selection): in every state every
\* stream of the list belongs to the group selected now.
C3_StreamsOfSelectedGroup ==
    Range(logStreams) \subseteq Range(BackendStreams(selectedLogGroup))

\* A request that has been superseded: a stream fetch whose group is no
\* longer the selection, or a search issued before one that is still in
\* flight or whose result is displayed.
Superseded(r) ==
    \/ r.kind = "streams" /\ r.logGroupName # selectedLogGroup
    \/ /\ r.kind = "search"
       /\ \/ \E q \in inflight : q.kind = "search" /\ q.id > r.id
          \/ logEvents # <<>> /\ logEvents[1].eventId > r.id

\* C4 (superseded completions are dropped): the completion of a superseded
\* request, successful or failed, changes neither the stream list, nor the
\* event list, nor the error message.
C4_SupersededDropped ==
    [][\A r \in inflight :
          (Completes(r) /\ Superseded(r))
          => UNCHANGED <<logStreams, logEvents, error>>]_vars

\* C5 (clearAll makes in-flight completions no-ops): a stream fetch or a
\* search that completes right after clearFilters leaves the stream list
\* and the event list empty.
C5_ClearMakesCompletionsNoOps ==
    [][\A r \in inflight :
          (/\ lastOp = "clearFilters"
           /\ r.kind \in {"streams", "search"}
           /\ Completes(r))
          => /\ logEvents' = <<>>
             /\ (logStreams = <<>> => logStreams' = <<>>)]_vars

\* C6 (selectGroup clears the current stream): a change of the selection
\* from one group to another leaves no stream selected.
C6_GroupChangeClearsStream ==
    [][(/\ lastOp' = "selectLogGroup"
        /\ selectedLogGroup # ""
        /\ selectedLogGroup' # ""
        /\ selectedLogGroup' # selectedLogGroup)
       => selectedLogStream' = ""]_vars

\* C7 (event list discarded on group change): whenever the selected group
\* changes, the event list is empty afterwards.
C7_GroupChangeDiscardsEvents ==
    [][selectedLogGroup' # selectedLogGroup => logEvents' = <<>>]_vars

\* What a selectGroup that makes `name` the selection is to do: with the
\* empty name, empty the stream list and issue nothing; with another name,
\* issue exactly one stream fetch, for that name.
SelectGroupOutcome ==
    IF selectedLogGroup' = ""
    THEN /\ logStreams' = <<>>
         /\ UNCHANGED <<issued, inflight>>
    ELSE /\ issued' = issued + 1
         /\ \E r \in inflight' \ inflight :
               /\ inflight' = inflight \cup {r}
               /\ r.kind = "streams"
               /\ r.logGroupName = selectedLogGroup'

\* C8 as stated: every selectGroup has that outcome.
C8_EverySelectGroupFetches ==
    [][lastOp' = "selectLogGroup" => SelectGroupOutcome]_vars

\* C8 (amended): a selectGroup that changes the selection has that outcome;
\* a selectGroup with the name already selected issues no fetch and leaves
\* the stream list as it is.
C8_SelectGroupFetchesOnChange ==
    [][lastOp' = "selectLogGroup" =>
          IF selectedLogGroup' # selectedLogGroup
          THEN SelectGroupOutcome
          ELSE UNCHANGED <<issued, inflight, logStreams>>]_vars

\* A group has just been selected and its stream fetch is in flight.
C8_Witness ==
    /\ lastOp = "selectLogGroup"
    /\ selectedLogGroup # ""
    /\ logStreams # <<>>
    /\ \E r \in inflight :
          r.id = issued /\ r.kind = "streams" /\ r.logGroupName = selectedLogGroup

\* C9 (clearAll resets every field): a clearFilters called while no request
\* is in flight leaves every field at its initial value.
C9_ClearResetsEveryField ==
    [][(lastOp' = "clearFilters" /\ inflight = {}) =>
          /\ selectedLogGroup' = ""
          /\ selectedLogStream' = ""
          /\ filterPattern' = ""
          /\ startTime' = ""
          /\ endTime' = ""
          /\ logEvents' = <<>>
          /\ logStreams' = <<>>
          /\ logGroupQuery' = ""
          /\ logStreamQuery' = ""
          /\ error' = ""]_vars

\* C10 (selectStream sets the current stream only): a selectStream issues
\* no request and leaves the selected group, the stream list, the event
\* list, the loading flag and the error message unchanged.
C10_SelectStreamFrame ==
    [][lastOp' = "selectLogStream" =>
          UNCHANGED <<selectedLogGroup, logStreams, logEvents, loading, error,
                      inflight, issued>>]_vars

\* A stream has just been selected while events are displayed and a request
\* is in flight.
C10_Witness ==
    /\ lastOp = "selectLogStream"
    /\ selectedLogStream # ""
    /\ logEvents # <<>>
    /\ inflight # {}
    /\ loading

\* C11 (validation): a search started while no group is selected sets the
\* error message "Please select a log group" and nothing else: no request is
\* issued, and the event list, the loading flag and every other field of the
\* component keep their values.
C11_SearchWithoutGroupFailsFast ==
    [][(lastOp' = "submit" /\ selectedLogGroup = "")
          => /\ error' = "Please select a log group"
             /\ UNCHANGED <<issued, inflight, logEvents, loading>>
             /\ UNCHANGED <<logGroups, logStreams, selectedLogGroup,
                            selectedLogStream, filterPattern, startTime,
                            endTime, logGroupQuery, logStreamQuery>>]_vars

\* A search was refused while events of an earlier search were displayed.
C11_Witness ==
    /\ lastOp = "submit"
    /\ selectedLogGroup = ""
    /\ error = "Please select a log group"
    /\ logEvents # <<>>

\* The number of items of the first k pages of the listing.
RECURSIVE ItemsUpTo(_)
ItemsUpTo(k) ==
    IF k = 0 THEN 0
    ELSE ItemsUpTo(k - 1) + (IF pages[k].present THEN Len(pages[k].items) ELSE 0)

\* Every item the backend holds, in listing order.
AllItems == [i \in 1..ItemsUpTo(Len(pages)) |-> i]

\* C12 (pagination completeness): when GET answers 200 for a listing of n
\* pages, its logGroups are the items of all the pages, in page order and in
\* their order inside each page; their number is the sum of the page sizes.
C12_PaginationComplete ==
    (pc = "done" /\ method = "GET" /\ response.status = 200)
        => /\ response.keys = {"logGroups"}
           /\ response.items = AllItems
           /\ Len(response.items) = ItemsUpTo(Len(pages))

\* GET answered with the items of several pages.
C12_Witness ==
    /\ pc = "done" /\ method = "GET" /\ response.status = 200
    /\ Len(pages) >= 2
    /\ pages[1].items # <<>>
    /\ Len(response.items) > Len(pages[1].items)

\* C13 (failure atomicity): when a call of GET's loop fails, whatever pages
\* were fetched before it, the response is an error response (401 or 500)
\* whose body is the error message alone: no item of a fetched page is in it.
C13_NoPartialResult ==
    (pc = "done" /\ method = "GET" /\ envOk /\ failAt > 0)
        => /\ response.status \in {401, 500}
           /\ response.keys = {"error"}
           /\ response.error # ""
           /\ response.items = <<>>

\* GET failed on a later page, after it had aggregated items.
C13_Witness ==
    /\ pc = "done" /\ method = "GET"
    /\ failAt > 1
    /\ routeLogGroups # <<>>
    /\ response.status = 500

\* The requests GET has sent form a chain: the first carries no token, each
\* later one carries the token of the response to the one before it, and no
\* request follows a response without a token; GET answers 200 only after a
\* response without a token.
TokenChain ==
    method = "GET" =>
        /\ \A i \in 1..Len(sent) :
              sent[i] = IF i = 1 THEN 0 ELSE PageFor(sent[i - 1]).nextToken
        /\ \A i \in 1..(Len(sent) - 1) : PageFor(sent[i]).nextToken # 0
        /\ (pc = "done" /\ response.status = 200)
              => PageFor(sent[Len(sent)]).nextToken = 0

\* C14 (token chaining and termination): GET's requests form the chain
\* above, and, the listing being finite, GET returns.
C14_TokenChainTerminates ==
    /\ []TokenChain
    /\ <>(pc = "done")

\* GET returned 200 after three requests.
C14_Witness ==
    /\ pc = "done" /\ method = "GET" /\ response.status = 200
    /\ Len(sent) >= 3
    /\ sent[3] = 2

\* C15 (stream listing aggregated): when PUT answers 200, its logStreams are
\* the streams of every page the backend holds for the group.
C15_StreamListingAggregated ==
    (pc = "done" /\ method = "PUT" /\ response.status = 200)
        => response.items = AllItems

\* An instance's callback runs in this step.
Emits(f) == emits'[f] > emits[f]

\* C16 (debounce coalescing): after a change of the raw value no settled
\* value is emitted until the delay has passed without another change; once
\* it has passed, exactly one value has been emitted and it is the last raw
\* value; no emission ever carries another value than the current raw one.
C16_DebounceCoalesces ==
    /\ [](\A f \in Fields :
            /\ emits[f] <= 1
            /\ sinceInput[f] < DelayTicks => emits[f] = 0
            /\ (mounted /\ sinceInput[f] = DelayTicks /\ timers[f] = {})
                  => (emits[f] = 1 /\ debounced[f] = Raw(f)))
    /\ [][\A f \in Fields :
            Emits(f) => /\ sinceInput[f] = DelayTicks
                        /\ debounced'[f] = Raw(f)]_vars

\* The group query settled on "ga", typed after "g".
C16_Witness ==
    /\ lastOp = "settle"
    /\ logGroupQuery = "ga"
    /\ debounced["group"] = "ga"
    /\ emits["group"] = 1
    /\ debounced["stream"] = "g"

\* C17 (debounce teardown): unmounting cancels the pending timers, after it
\* no value is emitted and no settled value changes; an instance never has
\* more than one timer pending.
C17_TeardownCancels ==
    /\ [](\A f \in Fields :
            /\ Cardinality(timers[f]) <= 1
            /\ ~mounted => timers[f] = {})
    /\ [][~mounted => UNCHANGED <<debounced, emits>>]_vars

\* The component was unmounted while the group query "g" waited for its
\* timer, and the delay has passed since.
C17_Witness ==
    /\ ~mounted
    /\ logGroupQuery = "g"
    /\ debounced["group"] = ""
    /\ sinceInput["group"] = DelayTicks

\* C18 (independent debouncers): a step that changes one raw query and not
\* the other leaves the other instance's timer, time since input and settled
\* value as they were.
C18_DebouncersIndependent ==
    [][/\ (logGroupQuery' # logGroupQuery /\ logStreamQuery' = logStreamQuery)
            => /\ timers'["stream"] = timers["stream"]
               /\ sinceInput'["stream"] = sinceInput["stream"]
               /\ debounced'["stream"] = debounced["stream"]
       /\ (logStreamQuery' # logStreamQuery /\ logGroupQuery' = logGroupQuery)
            => /\ timers'["group"] = timers["group"]
               /\ sinceInput'["group"] = sinceInput["group"]
               /\ debounced'["group"] = debounced["group"]]_vars

\* The group query changed while the stream query's timer was running.
C18_Witness ==
    /\ lastOp = "setLogGroupQuery"
    /\ \E t \in timers["stream"] : t.value # "" /\ t.left < DelayTicks
    /\ \E t \in timers["group"] : t.left = DelayTicks

\* The letters that differ by case only.
CasePairs == {<<"A", "a">>, <<"B", "b">>, <<"E", "e">>, <<"H", "h">>,
              <<"L", "l">>, <<"P", "p">>, <<"T", "t">>}

SameLetter(a, b) == a = b \/ <<a, b>> \in CasePairs \/ <<b, a>> \in CasePairs

\* The query occurs in the name, letter for letter up to case.
ContainsIgnoringCase(name, query) ==
    LET n == Chars(name)
        q == Chars(query)
    IN  \E off \in 0..(Len(n) - Len(q)) :
           \A k \in 1..Len(q) : SameLetter(n[off + k], q[k])

\* The positions of the collection whose name contains the settled query.
Matching == {i \in 1..Len(fItems) : ContainsIgnoringCase(fItems[i], fQuery)}

\* C19 (filter correctness): the view lists the items at the matching
\* positions, in the order of the collection; for the empty query it is the
\* collection itself; [Alpha, beta, ALPHABET] filtered by alpha is
\* [Alpha, ALPHABET].
C19_FilterCorrect ==
    /\ Len(fView) = Cardinality(Matching)
    /\ \A i \in Matching :
          fView[Cardinality({k \in Matching : k <= i})] = fItems[i]
    /\ fQuery = "" => fView = fItems
    /\ (fItems = <<"Alpha", "beta", "ALPHABET">> /\ fQuery = "alpha")
          => fView = <<"Alpha", "ALPHABET">>

\* The example: a view that drops the item in the middle.
C19_Witness ==
    /\ fItems = <<"Alpha", "beta", "ALPHABET">>
    /\ fQuery = "alpha"
    /\ fView = <<"Alpha", "ALPHABET">>

\* C20 (typing issues no request): a change of a dropdown query and the
\* settlement of a debounced query leave the number of requests issued, the
\* requests in flight, the group list, the stream list and the event list
\* as they were.
C20_TypingIssuesNoRequest ==
    [][lastOp' \in {"setLogGroupQuery", "setLogStreamQuery", "settle"}
          => UNCHANGED <<issued, inflight, logGroups, logStreams, logEvents>>]_vars

\* The group query "g" settled over loaded lists and displayed events.
C20_Witness ==
    /\ lastOp = "settle"
    /\ debounced["group"] = "g"
    /\ logGroups # <<>>
    /\ logStreams # <<>>
    /\ logEvents # <<>>
    /\ issued = 3

\* C21 (active index within the list): the index of every scrollToIndex call
\* lies in 0..count-1, count being the length of the filtered list at the
\* time of the call.
C21_ScrollIndexInRange ==
    \A f \in Fields :
        scrollCall[f].called
            => (0 <= scrollCall[f].index /\ scrollCall[f].index < scrollCall[f].count)

\* C22 (no scroll on an empty list): no scrollToIndex call is made for a
\* dropdown whose filtered list is empty.
C22_NoScrollWhenEmpty ==
    \A f \in Fields : scrollCall[f].called => Len(FilteredOf(f)) > 0

\* The scroll effect of the open stream dropdown, its element rendered, ran
\* over an empty list and made no call.
C22_Witness ==
    /\ scrollCall["stream"].ran
    /\ open["stream"] /\ attached["stream"]
    /\ Len(filteredLogStreams) = 0
    /\ ~scrollCall["stream"].called

\* C24: whatever limit a search request carries (none, zero, negative, in
\* range, above 10000), the limit passed to the backend lies in 1..10000, and
\* it is 100 when the received limit is absent or out of range.
C24_LimitClamped ==
    (method = "POST" /\ sent # <<>>)
        => /\ \E l \in 1..10000 : params.limit = {l}
           /\ (body.limit = {} \/ ~(body.limit \subseteq 1..10000))
                  => params.limit = {100}

\* The search just submitted, as the backend receives it.
Submitted == lastOp = "submit" /\ (\E r \in inflight : r.id = issued /\ r.kind = "search")

BackendRequest == POSTParams(searchParams)

\* C25: a search with the start (end) time unset reaches the backend with no
\* startTime (endTime) field; with the bound set, the field is its epoch
\* millisecond value.
C25_TimeBoundsSent ==
    Submitted
        => /\ BackendRequest.startTime
                  = (IF startTime = "" THEN {} ELSE {ToMillis(startTime)})
           /\ BackendRequest.endTime
                  = (IF endTime = "" THEN {} ELSE {ToMillis(endTime)})

\* The invocation has ended in the catch block of its handler.
Failed == pc = "done" /\ (~jsonOk \/ ~envOk \/ failAt = Len(sent))

\* The value that was thrown: the SyntaxError of req.json(), the Error of
\* getClient, or the failure of send.
Caught ==
    IF ~jsonOk THEN Thrown("SyntaxError", "")
    ELSE IF ~envOk THEN Thrown("Error", "")
    ELSE failWith

AuthFailed == {"UnrecognizedClientException", "InvalidSignatureException"}

PermissionDenied == {"AccessDeniedException"}

\* C26: on each of the three endpoints a failure whose name or __type says
\* unrecognized client, invalid signature or access denied is answered with
\* an { error } body and status 401; any other failure with an { error } body
\* and status 500.
C26_ErrorStatusMapping ==
    Failed
        => /\ response.keys = {"error"}
           /\ response.error # ""
           /\ response.status
                  = (IF {Caught.name, Caught.type} \cap (AuthFailed \cup PermissionDenied) # {}
                     THEN 401 ELSE 500)

C26_Witness ==
    /\ Failed
    /\ method = "POST"
    /\ Caught.type = "AccessDeniedException"
    /\ response.status = 401

\* C27: a failure saying that the group or stream does not exist is answered
\* differently from an unclassified failure.
C27_NotFoundDistinct ==
    (Failed /\ "ResourceNotFoundException" \in {Caught.name, Caught.type})
        => ~(response.status = 500 /\ response.error = FallbackError(method))

\* C28: when a stream fetch or a search fails, the group list, the stream
\* list, the event list and the selections keep their values, the error
\* message is set, and no request is issued.
C28_FailureKeepsData ==
    [][lastOp' \in {"fetchLogStreamsCatch", "searchLogsCatch"} =>
          /\ UNCHANGED <<logGroups, logStreams, logEvents, selectedLogGroup,
                         selectedLogStream, filterPattern, startTime, endTime,
                         issued>>
          /\ inflight' \subseteq inflight
          /\ error' # ""]_vars

\* A search has just failed while groups, streams and events are displayed.
C28_Witness ==
    /\ lastOp = "searchLogsCatch"
    /\ logGroups # <<>> /\ logStreams # <<>> /\ logEvents # <<>>
    /\ error = "Failed to search logs"

\* C29: while a request that was issued has not completed, the loading flag
\* is true, whatever other requests are issued or complete meanwhile.
C29_LoadingWhileInFlight == inflight # {} => loading

\* C30: a search that passes validation issues exactly one request, and when
\* it succeeds the event list is the sequence of events of its response, in
\* order and of the same length, whatever the list held before.
C30_SearchStoresResponse ==
    [][/\ (lastOp' = "submit" /\ issued' # issued)
            => /\ issued' = issued + 1
               /\ \E r \in inflight' \ inflight :
                      /\ inflight' = inflight \cup {r}
                      /\ r.kind = "search" /\ r.id = issued'
       /\ lastOp' = "searchLogs"
            => \E r \in inflight \ inflight' :
                  /\ inflight' = inflight \ {r}
                  /\ Len(logEvents') = Len(EventsOf(r))
                  /\ \A i \in 1..Len(logEvents') : logEvents'[i] = EventsOf(r)[i]
                  /\ issued' = issued]_vars

\* The second search of a run has answered with three events, after the
\* first search had completed.
C30_Witness ==
    /\ lastOp = "searchLogs"
    /\ Len(logEvents) = 3
    /\ \A i \in 1..3 : logEvents[i].eventId = 4 /\ logEvents[i].seq = i

\* C31: the log groups are fetched once, at startup, and never again; if
\* that fetch fails the group list stays empty and the error message is set;
\* if it succeeds the group list becomes the list of the response.
C31_GroupsFetchedOnce ==
    /\ \E r \in inflight : inflight = {r} /\ r.kind = "groups" /\ issued = 1
    /\ [][/\ \A r \in inflight' \ inflight : r.kind # "groups"
          /\ lastOp' = "fetchLogGroupsCatch"
                => logGroups = <<>> /\ logGroups' = <<>> /\ error' # ""
          /\ lastOp' = "fetchLogGroups"
                => logGroups = <<>> /\ logGroups' = BackendGroups]_vars

\* The fetch of the groups has failed.
C31_Witness ==
    /\ lastOp = "fetchLogGroupsCatch"
    /\ logGroups = <<>>
    /\ error = "Failed to fetch log groups"
    /\ inflight = {}

\* C32: at most one search request is in flight at any time.
C32_OneSearchInFlight ==
    Cardinality({r \in inflight : r.kind = "search"}) <= 1

\* C33: while no group is selected the stream list is empty, also after a
\* stream fetch issued for an earlier group has completed.
C33_NoGroupNoStreams == selectedLogGroup = "" => logStreams = <<>>

\* C34: a selected stream implies a selected group, and no search request
\* carries a stream name without a group name.
C34_StreamUnderGroup ==
    /\ selectedLogStream # "" => selectedLogGroup # ""
    /\ \A r \in inflight :
          (r.kind = "search" /\ r.logStreamName # {}) => r.logGroupName # ""

\* A search of one stream is in flight, and the group has been deselected
\* since: the stream is deselected with it.
C34_Witness ==
    /\ \E r \in inflight : r.kind = "search" /\ r.logStreamName # {}
    /\ lastOp = "selectLogGroup"
    /\ selectedLogGroup = "" /\ selectedLogStream = ""

\* C35: after any ArrowDown, ArrowUp or mouse-enter event on a dropdown,
\* whatever the length of its filtered list, the active index is at least 0,
\* and an event that raises the index does not move it past the last index
\* of the filtered list.
C35_ActiveIndexNonNegative ==
    [][\A f \in Fields :
          /\ activeIndex'[f] >= 0
          /\ activeIndex'[f] > activeIndex[f]
                => activeIndex'[f] <= Len(FilteredOf(f)) - 1]_vars

\* The key of the payload of each handler.
PayloadKey(m) ==
    CASE m = "GET"  -> "logGroups"
      [] m = "PUT"  -> "logStreams"
      [] m = "POST" -> "events"

\* C36: every invocation of GET, PUT and POST ends with one response, which
\* does not change afterwards: status 200 with the payload if and only if
\* the body was parsed, the credentials and region were set and every call
\* of the backend succeeded; otherwise status 401 or 500 with an { error }
\* body, and 500 when the credentials or the region are missing.
C36_AlwaysOneResponse ==
    /\ <>(pc = "done")
    /\ [](response # NoResponse <=> pc = "done")
    /\ [][response # NoResponse => response' = response]_vars
    /\ [](pc = "done" =>
            IF jsonOk /\ envOk /\ (failAt = 0 \/ failAt > Len(sent))
            THEN response.status = 200 /\ response.keys = {PayloadKey(method)}
            ELSE /\ response.status \in {401, 500}
                 /\ response.keys = {"error"}
                 /\ ~envOk => response.status = 500)

\* PUT was invoked without credentials and has answered.
C36_Witness ==
    /\ pc = "done" /\ method = "PUT"
    /\ jsonOk /\ ~envOk
    /\ response.status = 500 /\ response.keys = {"error"}

\* C37: the criteria list is never empty after addCriteria, removeCriteria,
\* updateCriteria and resetCriteria, and removeCriteria on a list of one
\* criterion leaves the list as it is.
C37_CriteriaNeverEmpty ==
    [][/\ Len(criteria') >= 1
       /\ (searchOp' = "removeCriteria" /\ Len(criteria) = 1)
             => criteria' = criteria]_vars

\* The criteria whose value is not blank, in list order.
Contributing ==
    SelectSeq(criteria, LAMBDA c : \E i \in 1..Len(c.value) : c.value[i] # " ")

\* The pattern of a criterion: its value, between quotes for a message
\* criterion that is not a regex.
PatternFor(c) ==
    IF c.field = "message" /\ c.operator # "regex"
    THEN <<"\"">> \o c.value \o <<"\"">>
    ELSE c.value

\* The log level, if one is selected, then the patterns of the criteria.
Contributions ==
    (IF logLevel = <<>> THEN <<>> ELSE <<logLevel>>)
        \o [i \in 1..Len(Contributing) |-> PatternFor(Contributing[i])]

\* The patterns ps, each but the first preceded by sep.
RECURSIVE Separated(_, _)
Separated(ps, sep) ==
    IF Len(ps) = 1 THEN ps[1]
    ELSE Separated(SubSeq(ps, 1, Len(ps) - 1), sep) \o sep \o ps[Len(ps)]

\* C38: the pattern handed to onSearch is made of the selected log level
\* followed by the criteria that are not blank, in list order: the empty
\* string for none, the pattern alone for one (under AND and under OR), and
\* for several the patterns separated by a space under AND, separated by
\* " OR " between parentheses under OR.
C38_FilterPatternComposed ==
    searched.called =>
        searched.pattern =
            (IF Len(Contributions) = 0 THEN <<>>
             ELSE IF Len(Contributions) = 1 THEN Contributions[1]
             ELSE IF combineOperator = "AND" THEN Separated(Contributions, <<" ">>)
             ELSE <<"(">> \o Separated(Contributions, <<" OR ">>) \o <<")">>)

\* A search under OR with a log level, a quoted criterion and a blank one.
C38_Witness ==
    /\ searched.called
    /\ combineOperator = "OR"
    /\ Len(criteria) = 2 /\ criteria[2].value = <<" ">>
    /\ searched.pattern = <<"(", "ERROR", " OR ", "\"", "x", "\"", ")">>

====
